---- MODULE Spec2Model ----
(***************************************************************************)
(* The two CoreML export scripts of yolo-ios-app:                          *)
(*   A  src/YOLO/Models/export_models.py              (batch export loop)  *)
(*   B  src/YOLOiOSApp/YOLOiOSApp/Models/export_models.py  (single model)  *)
(* The ultralytics library (YOLO(...) and model.export(...)) is the        *)
(* external collaborator.  It is modelled as a recording stand-in: every   *)
(* call is appended to a log when it starts, and its outcome (a return or  *)
(* a raised failure, chosen nondeterministically) is appended to a second  *)
(* log when it completes.                                                  *)
(***************************************************************************)
EXTENDS Integers, Sequences, FiniteSets, TLC

VARIABLES pcA, itA, sizeA, modelA, callsA, resultsA, runA, goodA,
          pcB, modelB, callsB, resultsB, runB, goodB

varsA == <<pcA, itA, sizeA, modelA, callsA, resultsA, runA, goodA>>
varsB == <<pcB, modelB, callsB, resultsB, runB, goodB>>
vars  == <<varsA, varsB>>

\* How many times each script is started in one behaviour.
MaxRuns == 2

----------------------------------------------------------------------------
\* Literals and pure helpers of the scripts

\* Mutant: two tokens of the tuple exchanged.
SizesSwapped == <<"n", "m", "s", "l", "x">>

\* A line 4: the tuple the for statement iterates over.
Sizes == <<"n", "s", "m", "l", "x">>

\* A line 6: the f-string f"yolo11{size}.pt".
ModelName(size) == "yolo11" \o size \o ".pt"

\* B line 5: the literal identifier.
TrainedModelName == "yolo11l.pt"

\* B line 9: imgsz=640.
ImgSz == 640

\* Mutant: the batch export called with the keyword arguments of script B.
ExportOptionsWithImgsz == [format |-> "coreml", int8 |-> TRUE, nms |-> TRUE, imgsz |-> ImgSz]

\* A line 8: the keyword arguments of model.export.
ExportOptionsA == [format |-> "coreml", int8 |-> TRUE, nms |-> TRUE]

\* Mutant: imgsz left out of the single-model export.
ExportOptionsNoImgsz == [format |-> "coreml", int8 |-> TRUE, nms |-> TRUE]

\* B line 9: the keyword arguments of model.export.
ExportOptionsB == [format |-> "coreml", int8 |-> TRUE, nms |-> TRUE, imgsz |-> ImgSz]

\* The name `model` before its first assignment.
NoHandle == [id |-> "", serial |-> 0]

\* Mutant: the exception is caught and the loop continues with the next token.
Swallowed == "for"

\* An exception nothing catches ends the script: neither script has a try.
Unhandled == "failed"

Final == {"done", "failed"}

----------------------------------------------------------------------------
\* The recording stand-in for the ultralytics library

LoadCall(identifier) == [op |-> "load", id |-> identifier]
ExportCall(handle, options) == [op |-> "export", handle |-> handle, opts |-> options]

IsLoad(c)   == c.op = "load"
IsExport(c) == c.op = "export"

\* YOLO(identifier) returning: a new handle derived from the identifier, told
\* apart from every other handle of the run by its serial number.
NewHandle(identifier, calls) ==
    [id |-> identifier, serial |-> Len(SelectSeq(calls, IsLoad))]

Returned(handle) == [status |-> "ok", handle |-> handle]
Raised           == [status |-> "raised", handle |-> NoHandle]

\* No run that finished without a failure has been seen yet.
NoRun == [seen |-> FALSE, calls |-> <<>>]

\* Calls started and not yet completed.
Pending(calls, results) == Len(calls) - Len(results)

----------------------------------------------------------------------------
\* Script A: the batch export loop

\* line 1: from ultralytics import YOLO binds the loader.
ImportA ==
    /\ pcA = "import"
    /\ pcA' = "for"
    /\ UNCHANGED <<itA, sizeA, modelA, callsA, resultsA, runA, goodA, varsB>>

\* line 1: the import raises (the library is not installed).
ImportRaisesA ==
    /\ pcA = "import"
    /\ pcA' = Unhandled
    /\ UNCHANGED <<itA, sizeA, modelA, callsA, resultsA, runA, goodA, varsB>>

\* Mutant: the loop takes a token without advancing the iterator.
ForNextNoAdvanceA ==
    /\ pcA = "for"
    /\ itA < Len(Sizes)
    /\ itA' = itA
    /\ sizeA' = Sizes[itA + 1]
    /\ pcA' = "load"
    /\ UNCHANGED <<modelA, callsA, resultsA, runA, goodA, varsB>>

\* line 4: the iterator yields the next size token.
ForNextA ==
    /\ pcA = "for"
    /\ itA < Len(Sizes)
    /\ itA' = itA + 1
    /\ sizeA' = Sizes[itA + 1]
    /\ pcA' = "load"
    /\ UNCHANGED <<modelA, callsA, resultsA, runA, goodA, varsB>>

\* line 4: the iterator is exhausted; the script has no statement after the loop.
ForExhaustedA ==
    /\ pcA = "for"
    /\ itA >= Len(Sizes)
    /\ pcA' = "done"
    /\ UNCHANGED <<itA, sizeA, modelA, callsA, resultsA, runA, goodA, varsB>>

\* line 6: YOLO(f"yolo11{size}.pt") is called.
CallLoaderA ==
    /\ pcA = "load"
    /\ callsA' = Append(callsA, LoadCall(ModelName(sizeA)))
    /\ pcA' = "in_load"
    /\ UNCHANGED <<itA, sizeA, modelA, resultsA, runA, goodA, varsB>>

\* Mutant: the returned handle is not bound to `model`.
LoaderReturnsNoRebindA ==
    /\ pcA = "in_load"
    /\ LET h == NewHandle(callsA[Len(callsA)].id, callsA)
       IN  resultsA' = Append(resultsA, Returned(h))
    /\ pcA' = "export"
    /\ UNCHANGED <<itA, sizeA, modelA, callsA, runA, goodA, varsB>>

\* line 6: the call returns and `model` is bound to the new handle.
LoaderReturnsA ==
    /\ pcA = "in_load"
    /\ LET h == NewHandle(callsA[Len(callsA)].id, callsA)
       IN  /\ modelA' = h
           /\ resultsA' = Append(resultsA, Returned(h))
    /\ pcA' = "export"
    /\ UNCHANGED <<itA, sizeA, callsA, runA, goodA, varsB>>

\* line 6: the call raises; `model` is not rebound.
LoaderRaisesA ==
    /\ pcA = "in_load"
    /\ resultsA' = Append(resultsA, Raised)
    /\ pcA' = Unhandled
    /\ UNCHANGED <<itA, sizeA, modelA, callsA, runA, goodA, varsB>>

\* Mutant: the export is started and the loop goes on without waiting for it.
CallExportNoWaitA ==
    /\ pcA = "export"
    /\ callsA' = Append(callsA, ExportCall(modelA, ExportOptionsA))
    /\ pcA' = "for"
    /\ UNCHANGED <<itA, sizeA, modelA, resultsA, runA, goodA, varsB>>

\* line 8: model.export(format="coreml", int8=True, nms=True) is called.
CallExportA ==
    /\ pcA = "export"
    /\ callsA' = Append(callsA, ExportCall(modelA, ExportOptionsA))
    /\ pcA' = "in_export"
    /\ UNCHANGED <<itA, sizeA, modelA, resultsA, runA, goodA, varsB>>

\* line 8: the call returns; its value is discarded and the loop goes on.
ExportReturnsA ==
    /\ pcA = "in_export"
    /\ resultsA' = Append(resultsA, Returned(NoHandle))
    /\ pcA' = "for"
    /\ UNCHANGED <<itA, sizeA, modelA, callsA, runA, goodA, varsB>>

\* Mutant: a raising export is tried again.
ExportRaisesRetriedA ==
    /\ pcA = "in_export"
    /\ resultsA' = Append(resultsA, Raised)
    /\ pcA' = "export"
    /\ UNCHANGED <<itA, sizeA, modelA, callsA, runA, goodA, varsB>>

\* line 8: the call raises.
ExportRaisesA ==
    /\ pcA = "in_export"
    /\ resultsA' = Append(resultsA, Raised)
    /\ pcA' = Unhandled
    /\ UNCHANGED <<itA, sizeA, modelA, callsA, runA, goodA, varsB>>

\* Mutant: the position of the iterator survives from one run to the next.
RerunKeepsIteratorA ==
    /\ pcA \in Final
    /\ runA < MaxRuns
    /\ runA' = runA + 1
    /\ goodA' = IF pcA = "done" THEN [seen |-> TRUE, calls |-> callsA] ELSE goodA
    /\ pcA' = "import"
    /\ itA' = itA
    /\ sizeA' = ""
    /\ modelA' = NoHandle
    /\ callsA' = <<>>
    /\ resultsA' = <<>>
    /\ UNCHANGED varsB

\* The script is started again: a new interpreter, a new stand-in.  goodA
\* keeps the call log of the latest run that finished without a failure.
RerunA ==
    /\ pcA \in Final
    /\ runA < MaxRuns
    /\ runA' = runA + 1
    /\ goodA' = IF pcA = "done" THEN [seen |-> TRUE, calls |-> callsA] ELSE goodA
    /\ pcA' = "import"
    /\ itA' = 0
    /\ sizeA' = ""
    /\ modelA' = NoHandle
    /\ callsA' = <<>>
    /\ resultsA' = <<>>
    /\ UNCHANGED varsB

----------------------------------------------------------------------------
\* Script B: the single-model export

\* line 1: from ultralytics import YOLO binds the loader.
ImportB ==
    /\ pcB = "import"
    /\ pcB' = "load"
    /\ UNCHANGED <<modelB, callsB, resultsB, runB, goodB, varsA>>

\* line 1: the import raises.
ImportRaisesB ==
    /\ pcB = "import"
    /\ pcB' = Unhandled
    /\ UNCHANGED <<modelB, callsB, resultsB, runB, goodB, varsA>>

\* line 5: YOLO("yolo11l.pt") is called.
CallLoaderB ==
    /\ pcB = "load"
    /\ callsB' = Append(callsB, LoadCall(TrainedModelName))
    /\ pcB' = "in_load"
    /\ UNCHANGED <<modelB, resultsB, runB, goodB, varsA>>

\* line 5: the call returns and `model` is bound.
LoaderReturnsB ==
    /\ pcB = "in_load"
    /\ LET h == NewHandle(callsB[Len(callsB)].id, callsB)
       IN  /\ modelB' = h
           /\ resultsB' = Append(resultsB, Returned(h))
    /\ pcB' = "export"
    /\ UNCHANGED <<callsB, runB, goodB, varsA>>

\* Mutant: a raising loader is ignored and the script goes on to the export.
LoaderRaisesIgnoredB ==
    /\ pcB = "in_load"
    /\ resultsB' = Append(resultsB, Raised)
    /\ pcB' = "export"
    /\ UNCHANGED <<modelB, callsB, runB, goodB, varsA>>

\* line 5: the call raises.
LoaderRaisesB ==
    /\ pcB = "in_load"
    /\ resultsB' = Append(resultsB, Raised)
    /\ pcB' = Unhandled
    /\ UNCHANGED <<modelB, callsB, runB, goodB, varsA>>

\* line 9: model.export(format="coreml", int8=True, nms=True, imgsz=640).
CallExportB ==
    /\ pcB = "export"
    /\ callsB' = Append(callsB, ExportCall(modelB, ExportOptionsB))
    /\ pcB' = "in_export"
    /\ UNCHANGED <<modelB, resultsB, runB, goodB, varsA>>

\* line 9: the call returns; lines 11-15 are comments, so the script ends.
ExportReturnsB ==
    /\ pcB = "in_export"
    /\ resultsB' = Append(resultsB, Returned(NoHandle))
    /\ pcB' = "done"
    /\ UNCHANGED <<modelB, callsB, runB, goodB, varsA>>

\* line 9: the call raises.
ExportRaisesB ==
    /\ pcB = "in_export"
    /\ resultsB' = Append(resultsB, Raised)
    /\ pcB' = Unhandled
    /\ UNCHANGED <<modelB, callsB, runB, goodB, varsA>>

\* The script is started again.
RerunB ==
    /\ pcB \in Final
    /\ runB < MaxRuns
    /\ runB' = runB + 1
    /\ goodB' = IF pcB = "done" THEN [seen |-> TRUE, calls |-> callsB] ELSE goodB
    /\ pcB' = "import"
    /\ modelB' = NoHandle
    /\ callsB' = <<>>
    /\ resultsB' = <<>>
    /\ UNCHANGED varsA

----------------------------------------------------------------------------
Init ==
    /\ pcA = "import"
    /\ itA = 0
    /\ sizeA = ""
    /\ modelA = NoHandle
    /\ callsA = <<>>
    /\ resultsA = <<>>
    /\ runA = 1
    /\ goodA = NoRun
    /\ pcB = "import"
    /\ modelB = NoHandle
    /\ callsB = <<>>
    /\ resultsB = <<>>
    /\ runB = 1
    /\ goodB = NoRun

Next ==
    \/ ImportA
    \/ ImportRaisesA
    \/ ForNextA
    \/ ForExhaustedA
    \/ CallLoaderA
    \/ LoaderReturnsA
    \/ LoaderRaisesA
    \/ CallExportA
    \/ ExportReturnsA
    \/ ExportRaisesA
    \/ RerunA
    \/ ImportB
    \/ ImportRaisesB
    \/ CallLoaderB
    \/ LoaderReturnsB
    \/ LoaderRaisesB
    \/ CallExportB
    \/ ExportReturnsB
    \/ ExportRaisesB
    \/ RerunB

Spec == Init /\ [][Next]_vars

\* The interpreter executes the next statement of a started script, and every
\* call into the library eventually returns or raises.  Starting a script
\* again is left to the user and is not fair.
StepA == \/ ImportA \/ ImportRaisesA \/ ForNextA \/ ForExhaustedA \/ CallLoaderA \/ CallExportA
         \/ LoaderReturnsA \/ LoaderRaisesA \/ ExportReturnsA \/ ExportRaisesA
StepB == \/ ImportB \/ ImportRaisesB \/ CallLoaderB \/ CallExportB
         \/ LoaderReturnsB \/ LoaderRaisesB \/ ExportReturnsB \/ ExportRaisesB

FairSpec == Spec /\ WF_vars(StepA) /\ WF_vars(StepB)

----------------------------------------------------------------------------
\* Reading the stand-in's logs

\* The identifiers of section 8 of the specification, in the listed order.
ListedNames == <<"yolo11n.pt", "yolo11s.pt", "yolo11m.pt", "yolo11l.pt", "yolo11x.pt">>

\* The option mappings of section 8 of the specification.
BatchOptions  == [format |-> "coreml", int8 |-> TRUE, nms |-> TRUE]
SingleOptions == [format |-> "coreml", int8 |-> TRUE, nms |-> TRUE, imgsz |-> 640]

\* No call of the log raised.
AllOk(results) == \A k \in DOMAIN results : results[k].status = "ok"

LoadIdx(calls)   == {k \in DOMAIN calls : IsLoad(calls[k])}
ExportIdx(calls) == {k \in DOMAIN calls : IsExport(calls[k])}

\* The calls that load `name`, and the export calls made on handle h.
LoadsOf(calls, name) == {k \in LoadIdx(calls) : calls[k].id = name}
ExportsOn(calls, h)  == {k \in ExportIdx(calls) : calls[k].handle = h}

\* Same option names, same values.
SameOptions(o, expected) ==
    /\ DOMAIN o = DOMAIN expected
    /\ \A n \in DOMAIN expected : o[n] = expected[n]

\* What a call shows of itself: operation, identifier, options.
Shown(c) ==
    IF IsLoad(c) THEN <<"load", c.id, <<>>>>
                 ELSE <<"export", c.handle.id, c.opts>>
ShownCalls(calls) == [k \in DOMAIN calls |-> Shown(calls[k])]

IsPrefix(s, t) == Len(s) <= Len(t) /\ \A k \in DOMAIN s : s[k] = t[k]

\* The ten calls of a batch run, as section 8 lists them.
BatchSequence ==
    [k \in 1..10 |->
        IF k % 2 = 1 THEN <<"load", ListedNames[(k + 1) \div 2], <<>>>>
                     ELSE <<"export", ListedNames[k \div 2], BatchOptions>>]

----------------------------------------------------------------------------
\* C1: a batch run in which every call succeeds loads each of yolo11n.pt,
\* yolo11s.pt, yolo11m.pt, yolo11l.pt, yolo11x.pt exactly once, exports each
\* loaded handle exactly once with options exactly {format: "coreml",
\* int8: true, nms: true}, and makes 5 loader and 5 export calls in all.
BatchCallsExactlyOnce ==
    (pcA = "done" /\ AllOk(resultsA)) =>
        /\ Cardinality(LoadIdx(callsA)) = 5
        /\ Cardinality(ExportIdx(callsA)) = 5
        /\ Len(callsA) = 10
        /\ \A j \in DOMAIN ListedNames :
              Cardinality(LoadsOf(callsA, ListedNames[j])) = 1
        /\ \A k \in LoadIdx(callsA) :
              Cardinality(ExportsOn(callsA, resultsA[k].handle)) = 1
        /\ \A k \in ExportIdx(callsA) :
              /\ SameOptions(callsA[k].opts, BatchOptions)
              /\ "imgsz" \notin DOMAIN callsA[k].opts
              /\ \E j \in LoadIdx(callsA) : resultsA[j].handle = callsA[k].handle

BatchRunSucceeded ==
    pcA = "done" /\ AllOk(resultsA) /\ Len(callsA) = 10 /\ Len(resultsA) = 10

LoadedNames(calls) ==
    LET loads == SelectSeq(calls, IsLoad)
    IN  [k \in DOMAIN loads |-> loads[k].id]

\* C2: the loader calls of a batch run are made in the listed order n, s, m,
\* l, x: what has been loaded so far is always an initial part of that list,
\* and a run that finishes without a failure has loaded the whole list.
BatchOrderIsListedOrder ==
    /\ IsPrefix(LoadedNames(callsA), ListedNames)
    /\ pcA = "done" => LoadedNames(callsA) = ListedNames

BatchLoadedAllInOrder ==
    pcA = "done" /\ LoadedNames(callsA) = ListedNames /\ itA = 5

\* C3: a single-model run in which both calls succeed makes exactly two
\* calls: the loader with yolo11l.pt, then export on the returned handle with
\* options exactly {format: "coreml", int8: true, nms: true, imgsz: 640}.
SingleCallsExactlyOnce ==
    /\ Len(callsB) <= 2
    /\ (pcB = "done" /\ AllOk(resultsB)) =>
          /\ Len(callsB) = 2
          /\ callsB[1] = [op |-> "load", id |-> "yolo11l.pt"]
          /\ IsExport(callsB[2])
          /\ callsB[2].handle = resultsB[1].handle
          /\ callsB[2].handle.id = "yolo11l.pt"
          /\ SameOptions(callsB[2].opts, SingleOptions)

SingleRunSucceeded ==
    pcB = "done" /\ AllOk(resultsB) /\ Len(callsB) = 2 /\ Len(resultsB) = 2

FailedLoads(calls, results) ==
    {k \in LoadIdx(calls) : k \in DOMAIN results /\ results[k].status = "raised"}

\* C4: when the loader raises for a token of the batch run, no export is made
\* for that token and no loader call for a later token: the failed call is
\* the last call of the run, and every earlier token was loaded exactly once
\* and exported exactly once, all of these calls having returned.
BatchLoaderFailureAborts ==
    \A k \in FailedLoads(callsA, resultsA) :
        LET j == (k + 1) \div 2
        IN  /\ k = Len(callsA)
            /\ callsA[k].id = ListedNames[j]
            /\ \A e \in ExportIdx(callsA) : callsA[e].handle.id # ListedNames[j]
            /\ \A later \in (j + 1)..Len(ListedNames) :
                  LoadsOf(callsA, ListedNames[later]) = {}
            /\ \A earlier \in 1..(j - 1) :
                  /\ Cardinality(LoadsOf(callsA, ListedNames[earlier])) = 1
                  /\ \A l \in LoadsOf(callsA, ListedNames[earlier]) :
                        /\ resultsA[l].status = "ok"
                        /\ Cardinality(ExportsOn(callsA, resultsA[l].handle)) = 1
                        /\ \A e \in ExportsOn(callsA, resultsA[l].handle) :
                              resultsA[e].status = "ok"

\* The loader raised on the third token, m.
BatchLoaderFailedOnM ==
    /\ pcA = "failed"
    /\ Len(callsA) = 5
    /\ callsA[5] = [op |-> "load", id |-> "yolo11m.pt"]
    /\ resultsA[5].status = "raised"

FailedExports(calls, results) ==
    {k \in ExportIdx(calls) : k \in DOMAIN results /\ results[k].status = "raised"}

\* C5: when export raises in the batch run, the run is over and has failed:
\* the failed export is the last call of the run, and within one run no
\* identifier is loaded twice and no handle is exported twice.
BatchExportFailureAborts ==
    /\ \A k \in FailedExports(callsA, resultsA) :
          /\ pcA = "failed"
          /\ k = Len(callsA)
    /\ \A k1, k2 \in LoadIdx(callsA) : callsA[k1].id = callsA[k2].id => k1 = k2
    /\ \A k1, k2 \in ExportIdx(callsA) :
          callsA[k1].handle = callsA[k2].handle => k1 = k2

\* Export raised on the second token, three tokens still to go.
BatchExportFailedOnS ==
    /\ pcA = "failed"
    /\ Len(callsA) = 4
    /\ IsExport(callsA[4])
    /\ resultsA[4].status = "raised"
    /\ itA = 2

\* C6: in the single-model run a raising loader means export is never called
\* and the run has failed; a raising export means the run has failed with no
\* further call; no call is made twice.
SingleFailureAborts ==
    /\ \A k \in FailedLoads(callsB, resultsB) :
          /\ pcB = "failed"
          /\ Len(callsB) = 1
          /\ ExportIdx(callsB) = {}
    /\ \A k \in FailedExports(callsB, resultsB) :
          /\ pcB = "failed"
          /\ k = Len(callsB)
    /\ Cardinality(LoadIdx(callsB)) <= 1
    /\ Cardinality(ExportIdx(callsB)) <= 1

SingleLoaderFailed ==
    /\ pcB = "failed"
    /\ callsB = <<[op |-> "load", id |-> "yolo11l.pt"]>>
    /\ resultsB[1].status = "raised"

\* C7: a run of either script in which every call succeeds shows the same
\* calls (identifiers, options, order) as the latest earlier run in which
\* every call succeeded.
RerunsMakeSameCalls ==
    /\ (goodA.seen /\ AllOk(resultsA)) =>
          /\ IsPrefix(ShownCalls(callsA), ShownCalls(goodA.calls))
          /\ pcA = "done" => ShownCalls(callsA) = ShownCalls(goodA.calls)
    /\ (goodB.seen /\ AllOk(resultsB)) =>
          /\ IsPrefix(ShownCalls(callsB), ShownCalls(goodB.calls))
          /\ pcB = "done" => ShownCalls(callsB) = ShownCalls(goodB.calls)

BothRerunSucceeded ==
    /\ runA > 1 /\ goodA.seen /\ pcA = "done" /\ AllOk(resultsA) /\ Len(callsA) = 10
    /\ runB > 1 /\ goodB.seen /\ pcB = "done" /\ AllOk(resultsB) /\ Len(callsB) = 2

\* C8: the batch run is strictly sequential: at most one call is in progress,
\* a call starts only when the call before it has returned, loads and exports
\* alternate, and the calls made so far are an initial part of load(n),
\* export(n), load(s), export(s), ..., export(x).
BatchStrictlySequential ==
    /\ Pending(callsA, resultsA) \in {0, 1}
    /\ IsPrefix(ShownCalls(callsA), BatchSequence)
    /\ \A k \in DOMAIN callsA :
          k > 1 => /\ (k - 1) \in DOMAIN resultsA
                   /\ resultsA[k - 1].status = "ok"
                   /\ IsLoad(callsA[k]) = IsExport(callsA[k - 1])

\* The load of the second token has started.
BatchSecondLoadStarted ==
    /\ pcA = "in_load"
    /\ Len(callsA) = 3
    /\ Pending(callsA, resultsA) = 1

\* C9: every export of the batch run is made on the handle the loader call
\* just before it returned, the handle of the current token, and no handle
\* is exported twice.
BatchExportsOwnHandle ==
    /\ \A k \in ExportIdx(callsA) :
          /\ k > 1
          /\ IsLoad(callsA[k - 1])
          /\ resultsA[k - 1].status = "ok"
          /\ callsA[k].handle = resultsA[k - 1].handle
          /\ callsA[k].handle.id = ListedNames[k \div 2]
    /\ \A k1, k2 \in ExportIdx(callsA) :
          callsA[k1].handle = callsA[k2].handle => k1 = k2

\* The export of the third token is in progress, on the third handle.
BatchThirdExportStarted ==
    /\ pcA = "in_export"
    /\ Len(callsA) = 6
    /\ callsA[6].handle = [id |-> "yolo11m.pt", serial |-> 3]
    /\ modelA = callsA[6].handle

\* C10: when every call into the library returns or raises, both scripts
\* terminate: a started batch run reaches done or failed having made at most
\* 5 loader and 5 export calls, a started single-model run having made at
\* most 1 loader and 1 export call.
BothTerminate ==
    /\ [](/\ Cardinality(LoadIdx(callsA)) <= 5
          /\ Cardinality(ExportIdx(callsA)) <= 5
          /\ Cardinality(LoadIdx(callsB)) <= 1
          /\ Cardinality(ExportIdx(callsB)) <= 1)
    /\ (pcA \notin Final) ~> (pcA \in Final)
    /\ (pcB \notin Final) ~> (pcB \in Final)

\* Both scripts have ended, one way each.
BothEnded ==
    /\ pcA = "done" /\ Len(callsA) = 10
    /\ pcB = "failed" /\ Len(callsB) = 2
====
